---------------------------- MODULE Spec2Model ----------------------------
(***************************************************************************)
(* A model of neural.py: the weight codec (flatten_weights,                *)
(* unflatten_weights), the NetworkWeights fitness function (forward pass   *)
(* and back propagation), the gradient_descent loop and the NeuralNetwork  *)
(* facade (__init__, fit).                                                 *)
(*                                                                         *)
(* Numbers are integers: weights, features and labels are drawn from small *)
(* integer sets and the learning rate is 1, so every product and sum of    *)
(* the forward and backward pass is exact.  A loss is the exact rational   *)
(* <<numerator, denominator>> (mean squared error divides by the number of *)
(* entries).  Only regression networks (is_classifier = False) with the    *)
(* identity or relu hidden activation are run: log-loss, sigmoid, softmax  *)
(* and tanh are not integer functions.                                     *)
(*                                                                         *)
(* A matrix is a sequence of rows, a row a sequence of numbers.            *)
(***************************************************************************)
EXTENDS Integers, Sequences, FiniteSets, TLC

\* ------------------------------------------------------------------ bounds
\* Finite values of max_iters and max_attempts are 0..MaxIters; a run with
\* max_iters = inf is followed for MaxIters + 1 iterations.
MaxIters == 2
\* The longest topology (node_list) and the longest flat vector the codec's
\* round trip is tried on.
MaxLayers == 3
MaxFlat == 4

\* np.inf: above every value a counter reaches within the iteration cap.
inf == MaxIters + 2
\* Python's None (an absent init_state / init_weights).
None == <<>>

\* ------------------------------------------------------- matrix arithmetic
\* A function with domain 1..n as the sequence of its values.
Tup(f) == f \o <<>>

RECURSIVE SumSeq(_)
\* The sum of a sequence of numbers.
SumSeq(s) == IF s = <<>> THEN 0 ELSE Head(s) + SumSeq(Tail(s))

RECURSIVE Concat(_)
\* The concatenation of a sequence of sequences.
Concat(ss) == IF ss = <<>> THEN <<>> ELSE Head(ss) \o Concat(Tail(ss))

\* np.dot(A, B) for an r x k matrix A and a k x c matrix B.
Dot(A, B) ==
  Tup([i \in 1..Len(A) |->
     Tup([j \in 1..Len(B[1]) |->
        SumSeq(Tup([l \in 1..Len(B) |-> A[i][l] * B[l][j]]))])])

\* np.transpose(A).
Transpose(A) ==
  Tup([j \in 1..Len(A[1]) |-> Tup([i \in 1..Len(A) |-> A[i][j]])])

\* A - B, elementwise.
MatSub(A, B) ==
  Tup([i \in 1..Len(A) |-> Tup([j \in 1..Len(A[i]) |-> A[i][j] - B[i][j]])])

\* A * B, elementwise.
MatMul(A, B) ==
  Tup([i \in 1..Len(A) |-> Tup([j \in 1..Len(A[i]) |-> A[i][j] * B[i][j]])])

\* c * A for a scalar c.
MatScale(c, A) ==
  Tup([i \in 1..Len(A) |-> Tup([j \in 1..Len(A[i]) |-> c * A[i][j]])])

\* np.hstack((X, ones)): a column of ones appended.
AppendOnes(X) == Tup([i \in 1..Len(X) |-> Append(X[i], 1)])

\* --------------------------------------------------------------- the codec
\* weights[i].flatten(): the rows one after another (row-major order).
MatFlatten(M) == Concat(M)

\* Column-major flattening (a layout bug).
flatten_weights_colmajor(weights) ==
  Concat(Tup([i \in 1..Len(weights) |-> Concat(Transpose(weights[i]))]))

\* flatten_weights: the matrices' flattenings appended in list order.
flatten_weights(weights) ==
  Concat(Tup([i \in 1..Len(weights) |-> MatFlatten(weights[i])]))

\* flat_weights[start:end] with 0-based start, exclusive end; a Python slice
\* stops at the end of the array.
Slice(flat, start, end) ==
  LET hi == IF end < Len(flat) THEN end ELSE Len(flat)
  IN  IF start >= hi THEN <<>> ELSE SubSeq(flat, start + 1, hi)

\* Whether np.reshape(a, [r, c]) raises: the sizes differ.
ReshapeRaises(a, r, c) == Len(a) # r * c

\* np.reshape(a, [r, c]): r rows of c consecutive elements.
Reshape(a, r, c) ==
  Tup([i \in 1..r |-> Tup([j \in 1..c |-> a[(i - 1) * c + j]])])

RECURSIVE UnflattenFrom(_, _, _, _)
\* The loop of unflatten_weights from layer i (1-based) with cursor start;
\* [raised, weights]: raised when a reshape raises ValueError, else the
\* list of matrices.
UnflattenFrom(flat, node_list, i, start) ==
  IF i > Len(node_list) - 1 THEN [raised |-> FALSE, weights |-> <<>>]
  ELSE LET end  == start + node_list[i] * node_list[i + 1]
           part == Slice(flat, start, end)
       IN  IF ReshapeRaises(part, node_list[i], node_list[i + 1])
           THEN [raised |-> TRUE, weights |-> <<>>]
           ELSE LET rest == UnflattenFrom(flat, node_list, i + 1, end)
                IN  [raised  |-> rest.raised,
                     weights |-> IF rest.raised THEN <<>>
                                 ELSE <<Reshape(part, node_list[i], node_list[i + 1])>>
                                      \o rest.weights]

RECURSIVE UnflattenStuck(_, _, _)
\* unflatten_weights with the cursor never advanced (start = end dropped).
UnflattenStuck(flat, node_list, i) ==
  IF i > Len(node_list) - 1 THEN [raised |-> FALSE, weights |-> <<>>]
  ELSE LET part == Slice(flat, 0, node_list[i] * node_list[i + 1])
       IN  IF ReshapeRaises(part, node_list[i], node_list[i + 1])
           THEN [raised |-> TRUE, weights |-> <<>>]
           ELSE LET rest == UnflattenStuck(flat, node_list, i + 1)
                IN  [raised  |-> rest.raised,
                     weights |-> IF rest.raised THEN <<>>
                                 ELSE <<Reshape(part, node_list[i], node_list[i + 1])>>
                                      \o rest.weights]

unflatten_weights_stuck(flat_weights, node_list) ==
  UnflattenStuck(flat_weights, node_list, 1)

\* unflatten_weights: [raised, weights].
unflatten_weights(flat_weights, node_list) ==
  UnflattenFrom(flat_weights, node_list, 1, 0)

\* The number of weights of a topology: the sum of node_list[i]*node_list[i+1].
NumWeights(node_list) ==
  SumSeq(Tup([i \in 1..(IF Len(node_list) = 0 THEN 0 ELSE Len(node_list) - 1) |->
                node_list[i] * node_list[i + 1]]))


\* ------------------------------------------------- collaborators' functions
\* An activation function applied elementwise to M, or its derivative.
Activate(activation, M, deriv) ==
  Tup([i \in 1..Len(M) |-> Tup([j \in 1..Len(M[i]) |->
     CASE activation = "identity" -> IF deriv THEN 1 ELSE M[i][j]
       [] activation = "relu" ->
            IF deriv THEN (IF M[i][j] > 0 THEN 1 ELSE 0)
            ELSE (IF M[i][j] > 0 THEN M[i][j] ELSE 0)])])

\* mean_squared_error(y_true, y_pred): the mean over all entries of the
\* squared difference, as the exact rational <<sum, count>>.
mean_squared_error(y_true, y_pred) ==
  LET d == MatSub(y_true, y_pred)
  IN  <<SumSeq(Concat(MatMul(d, d))), Len(y_true) * Len(y_true[1])>>

\* a > b for rationals with positive denominators.
Gt(a, b) == a[1] * b[2] > b[1] * a[2]

\* c * a for an integer c and a rational a.
Times(c, a) == <<c * a[1], a[2]>>

\* ---------------------------------------------------------- NetworkWeights
\* NetworkWeights.__init__.
NetworkWeightsInit(X, y, node_list, activation, bias, is_classifier, learning_rate) ==
  [X |-> X, y_true |-> y, node_list |-> node_list, activation |-> activation,
   bias |-> bias, is_classifier |-> is_classifier, lr |-> learning_rate,
   loss |-> IF is_classifier THEN "log_loss" ELSE "mean_squared_error",
   output_activation |->
     IF is_classifier
     THEN (IF Len(y[1]) = 1 THEN "sigmoid" ELSE "softmax")
     ELSE "identity",
   inputs_list |-> <<>>, y_pred |-> y, weights |-> <<>>]

RECURSIVE ForwardFrom(_, _, _, _)
\* The layer loop of evaluate from layer i with the layer's inputs:
\* [inputs_list, y_pred].
ForwardFrom(fn, weights, i, inputs) ==
  LET outputs == Dot(inputs, weights[i])
  IN  IF i < Len(weights)
      THEN LET rest == ForwardFrom(fn, weights, i + 1,
                                   Activate(fn.activation, outputs, FALSE))
           IN  [inputs_list |-> <<inputs>> \o rest.inputs_list,
                y_pred |-> rest.y_pred]
      ELSE [inputs_list |-> <<inputs>>,
            y_pred |-> Activate(fn.output_activation, outputs, FALSE)]

\* NetworkWeights.evaluate(state): the fitness function with its cache
\* (inputs_list, weights, y_pred) overwritten, and the loss.
evaluate(fn, state) ==
  LET weights == unflatten_weights(state, fn.node_list).weights
      inputs  == IF fn.bias THEN AppendOnes(fn.X) ELSE fn.X
      fwd     == IF Len(weights) = 0
                 THEN [inputs_list |-> <<>>, y_pred |-> fn.y_pred]
                 ELSE ForwardFrom(fn, weights, 1, inputs)
      after   == [fn EXCEPT !.inputs_list = fwd.inputs_list,
                            !.weights = weights,
                            !.y_pred = fwd.y_pred]
  IN  [fn |-> after, fitness |-> mean_squared_error(fn.y_true, fwd.y_pred)]

RECURSIVE DeltaAt(_, _)
\* The error signal of layer i (1-based) in calculate_updates.
DeltaAt(fn, i) ==
  IF i = Len(fn.inputs_list)
  THEN MatSub(fn.y_pred, fn.y_true)
  ELSE MatMul(Dot(DeltaAt(fn, i + 1), Transpose(fn.weights[i + 1])),
              Activate(fn.activation, fn.inputs_list[i + 1], TRUE))

\* NetworkWeights.calculate_updates: one update matrix per layer, in layer
\* order, computed from the cache.
calculate_updates(fn) ==
  Tup([i \in 1..Len(fn.inputs_list) |->
     MatScale(-1 * fn.lr, Dot(Transpose(fn.inputs_list[i]), DeltaAt(fn, i)))])

\* ----------------------------------------------------------- ContinuousOpt
\* ContinuousOpt(length, fitness_fn, maximize, min_val, max_val, step).
ContinuousOpt(length, maximize, min_val, max_val, step) ==
  [length |-> length, maximize |-> IF maximize THEN 1 ELSE -1,
   min_val |-> min_val, max_val |-> max_val, step |-> step,
   state |-> Tup([i \in 1..length |-> 0]), fitness |-> <<0, 1>>]

\* problem.eval_fitness(state): the sign-adjusted fitness of a state; the
\* fitness function's cache is overwritten.
eval_fitness(problem, fn, state) ==
  LET e == evaluate(fn, state)
  IN  [fn |-> e.fn, fitness |-> Times(problem.maximize, e.fitness)]

\* problem.set_state(new_state): the state and its fitness.
set_state(problem, fn, new_state) ==
  LET e == eval_fitness(problem, fn, new_state)
  IN  [problem |-> [problem EXCEPT !.state = new_state, !.fitness = e.fitness],
       fn |-> e.fn]

\* problem.update_state(updates): state + updates, clipped elementwise.
update_state(problem, updates) ==
  Tup([i \in 1..Len(problem.state) |->
     LET v == problem.state[i] + updates[i]
     IN  IF v > problem.max_val THEN problem.max_val
         ELSE IF v < problem.min_val THEN problem.min_val ELSE v])


\* ------------------------------------------------------------------- state
VARIABLES
  self,      \* the NeuralNetwork object (exists = FALSE: none constructed)
  problem,   \* the ContinuousOpt object of the call in progress
  fn,        \* its NetworkWeights fitness function, with the forward cache
  gd,        \* gradient_descent's arguments and locals
  pc,        \* "idle", or "gd": inside gradient_descent's loop
  caller,    \* who called gradient_descent: "fit" or "client"
  raised,    \* the exception the last call raised, "none" if it returned
  call,      \* the last call made: its name, the names passed to __init__,
             \* whether fit's X and y had different numbers of rows
  visited,   \* history: the states that have been problem.state, in order
  grad_read, \* history: the cache and problem.state at the last calculate_updates
  codec      \* the codec's own round trip: [form, node_list, flat, weights, ...]

vars == <<self, problem, fn, gd, pc, caller, raised, call, visited,
          grad_read, codec>>

\* ------------------------------------------------------------ input values
Activations == {"identity", "relu", "sigmoid", "tanh"}
Algorithms == {"random_hill_climb", "simulated_annealing", "genetic_alg",
               "gradient_descent"}
\* The names a caller may pass, one unrecognized name among them.
ActivationArgs == Activations \cup {"softplus"}
AlgorithmArgs == Algorithms \cup {"adam"}
\* The activations whose forward and backward pass are integer functions.
IntegerActivations == {"identity", "relu"}
HiddenNodesArgs == {<<>>, <<1>>}
MaxItersArgs == 0..MaxIters \cup {inf}
MaxAttemptsArgs == 0..MaxIters
LearningRateArgs == {1}
ClipMaxArgs == {2}
\* np.random.uniform(-1, 1, n) and the caller's init_weights.
InitValues == {-1, 1}
\* Feature matrices (one feature a row) and label arrays.
FeatureArgs == {<<<<1>>>>, <<<<1>>, <<2>>>>}
LabelArgs == {[shape |-> <<1>>, data |-> <<1>>],
              [shape |-> <<1, 1>>, data |-> <<2>>],
              [shape |-> <<2>>, data |-> <<1, 0>>]}
\* The entries of a vector a randomized algorithm returns.
ReturnedValues == {1}

\* All vectors of length n over the set S.
Vectors(n, S) == [1..n -> S]

\* --------------------------------------------------------- initial values
NoSelf ==
  [exists |-> FALSE, hidden_nodes |-> <<>>, max_iters |-> 0, bias |-> FALSE,
   is_classifier |-> FALSE, lr |-> 0, early_stopping |-> FALSE, clip_max |-> 0,
   activation |-> "", algorithm |-> "", max_attempts |-> 0,
   node_list |-> <<>>, fitted_weights |-> <<>>, loss |-> <<>>,
   output_activation |-> "None"]

NoProblem == ContinuousOpt(0, FALSE, 0, 0, 0)

NoFn == NetworkWeightsInit(<<>>, <<<<>>>>, <<>>, "", FALSE, FALSE, 0)

NoRun ==
  [max_attempts |-> 0, max_iters |-> 0, attempts |-> 0, iters |-> 0,
   best_state |-> <<>>, best_fitness |-> <<0, 1>>]

NoRead == [n |-> 0, state |-> <<>>, inputs_list |-> <<>>, weights |-> <<>>,
           y_pred |-> <<>>]

NoCall == [op |-> "", activation |-> "", algorithm |-> "", rows_differ |-> FALSE]

NoCodec == [form |-> "none", orig |-> "none", node_list |-> <<>>, flat |-> <<>>,
            weights |-> <<>>, orig_flat |-> <<>>, orig_weights |-> <<>>,
            steps |-> 0, raised |-> FALSE]

Init ==
  /\ self = NoSelf
  /\ problem = NoProblem
  /\ fn = NoFn
  /\ gd = NoRun
  /\ pc = "idle"
  /\ caller = ""
  /\ raised = "none"
  /\ call = NoCall
  /\ visited = <<>>
  /\ grad_read = NoRead
  /\ codec = NoCodec


\* ------------------------------------------------- NeuralNetwork.__init__
\* activation in activation_dict.keys()
ValidActivation(activation) == activation \in Activations

\* The algorithm name not validated.
ValidAlgorithm_any(algorithm) == TRUE

\* algorithm in [...]
ValidAlgorithm(algorithm) == algorithm \in Algorithms

\* self.max_attempts taken from the argument whatever early_stopping is.
InitMaxAttempts_arg(early_stopping, max_attempts, max_iters) == max_attempts

\* self.max_attempts: the argument under early stopping, else max_iters.
InitMaxAttempts(early_stopping, max_attempts, max_iters) ==
  IF early_stopping THEN max_attempts ELSE max_iters

\* NeuralNetwork(...): the object, or an exception and no object.
Construct(hidden_nodes, activation, algorithm, max_iters, bias, is_classifier, learning_rate, early_stopping, clip_max, max_attempts) ==
  /\ pc = "idle"
  /\ ~self.exists
  /\ call' = [NoCall EXCEPT !.op = "__init__", !.activation = activation,
                            !.algorithm = algorithm]
  /\ IF ~ValidActivation(activation)
     THEN /\ raised' = "activation"
          /\ UNCHANGED self
     ELSE IF ~ValidAlgorithm(algorithm)
     THEN /\ raised' = "algorithm"
          /\ UNCHANGED self
     ELSE /\ raised' = "none"
          /\ self' = [exists |-> TRUE, hidden_nodes |-> hidden_nodes,
                      max_iters |-> max_iters, bias |-> bias,
                      is_classifier |-> is_classifier, lr |-> learning_rate,
                      early_stopping |-> early_stopping, clip_max |-> clip_max,
                      activation |-> activation, algorithm |-> algorithm,
                      max_attempts |->
                        InitMaxAttempts(early_stopping, max_attempts, max_iters),
                      node_list |-> <<>>, fitted_weights |-> <<>>,
                      loss |-> <<>>, output_activation |-> "None"]
  /\ UNCHANGED <<problem, fn, gd, pc, caller, visited, grad_read, codec>>

\* -------------------------------------------------------- gradient_descent
\* The while condition with attempts <= max_attempts.
LoopCondition_attempts_le(attempts, iters, max_attempts, max_iters) ==
  (attempts <= max_attempts) /\ (iters < max_iters)

\* The while condition with iters <= max_iters.
LoopCondition_iters_le(attempts, iters, max_attempts, max_iters) ==
  (attempts < max_attempts) /\ (iters <= max_iters)

\* The while condition.
LoopCondition(attempts, iters, max_attempts, max_iters) ==
  (attempts < max_attempts) /\ (iters < max_iters)

\* The attempts counter reset on a tie as well (>= for >).
NextAttempts_ge(attempts, next_fitness, fitness) ==
  IF ~Gt(fitness, next_fitness) THEN 0 ELSE attempts + 1

\* The attempts counter after a step to a state of fitness next_fitness.
NextAttempts(attempts, next_fitness, fitness) ==
  IF Gt(next_fitness, fitness) THEN 0 ELSE attempts + 1

\* The best pair replaced by every candidate.
NextBest_always(best_state, best_fitness, next_state, next_fitness, maximize) ==
  [best_state |-> next_state, best_fitness |-> Times(maximize, next_fitness)]

\* best_fitness updated and best_state left behind.
NextBest_fitness_only(best_state, best_fitness, next_state, next_fitness, maximize) ==
  IF Gt(next_fitness, Times(maximize, best_fitness))
  THEN [best_state |-> best_state, best_fitness |-> Times(maximize, next_fitness)]
  ELSE [best_state |-> best_state, best_fitness |-> best_fitness]

\* best_state and best_fitness after a step to next_state.
NextBest(best_state, best_fitness, next_state, next_fitness, maximize) ==
  IF Gt(next_fitness, Times(maximize, best_fitness))
  THEN [best_state |-> next_state, best_fitness |-> Times(maximize, next_fitness)]
  ELSE [best_state |-> best_state, best_fitness |-> best_fitness]

\* The candidate made current only when it improves (hill climbing); f is
\* the fitness function as the candidate's evaluation left it.
Advance_if_better(prob, f, next_state) ==
  IF Gt(eval_fitness(prob, f, next_state).fitness, prob.fitness)
  THEN set_state(prob, f, next_state)
  ELSE [problem |-> prob, fn |-> f]

\* problem.set_state(next_state) at the end of a step.
Advance(prob, f, next_state) == set_state(prob, f, next_state)

\* The call gradient_descent(problem, max_attempts, max_iters, init_state)
\* up to the loop; start is init_state, or the state problem.reset() draws
\* when init_state is None.
GradientDescentEnter(prob, f, max_attempts, max_iters, start, who) ==
  LET s == set_state(prob, f, start)
  IN  /\ problem' = s.problem
      /\ fn' = s.fn
      /\ gd' = [max_attempts |-> max_attempts, max_iters |-> max_iters,
                attempts |-> 0, iters |-> 0,
                best_fitness |-> Times(s.problem.maximize, s.problem.fitness),
                best_state |-> s.problem.state]
      /\ pc' = "gd"
      /\ caller' = who
      /\ visited' = <<start>>
      /\ grad_read' = NoRead

\* One pass of the loop.
GDStep ==
  /\ pc = "gd"
  /\ LoopCondition(gd.attempts, gd.iters, gd.max_attempts, gd.max_iters)
  /\ gd.iters <= MaxIters
  /\ LET updates      == flatten_weights(calculate_updates(fn))
         next_state   == update_state(problem, updates)
         e            == eval_fitness(problem, fn, next_state)
         next_fitness == e.fitness
         best         == NextBest(gd.best_state, gd.best_fitness, next_state,
                                  next_fitness, problem.maximize)
         s            == Advance(problem, e.fn, next_state)
     IN  /\ gd' = [gd EXCEPT !.iters = gd.iters + 1,
                             !.attempts = NextAttempts(gd.attempts, next_fitness,
                                                       problem.fitness),
                             !.best_state = best.best_state,
                             !.best_fitness = best.best_fitness]
         /\ problem' = s.problem
         /\ fn' = s.fn
         /\ visited' = Append(visited, s.problem.state)
         /\ grad_read' = [n |-> gd.iters + 1, state |-> problem.state,
                          inputs_list |-> fn.inputs_list, weights |-> fn.weights,
                          y_pred |-> fn.y_pred]
  /\ UNCHANGED <<self, pc, caller, raised, call, codec>>

\* The loop is left and gradient_descent returns (best_state, best_fitness);
\* fit saves them with the node list and the output activation.
GDReturn ==
  /\ pc = "gd"
  /\ ~LoopCondition(gd.attempts, gd.iters, gd.max_attempts, gd.max_iters)
  /\ IF caller = "fit"
     THEN /\ self' = [self EXCEPT !.node_list = fn.node_list,
                                  !.fitted_weights = gd.best_state,
                                  !.loss = gd.best_fitness,
                                  !.output_activation = fn.output_activation]
     ELSE UNCHANGED self
  /\ pc' = "idle"
  /\ caller' = ""
  /\ raised' = "none"
  /\ problem' = NoProblem
  /\ fn' = NoFn
  /\ gd' = NoRun
  /\ visited' = <<>>
  /\ grad_read' = NoRead
  /\ UNCHANGED <<call, codec>>

\* A client's own call of gradient_descent on a ContinuousOpt problem over a
\* NetworkWeights regression fitness function without bias, maximizing or
\* minimizing.  It is followed while no NeuralNetwork object exists: the
\* call shares nothing with one.
GradientDescentCall(X, y, hidden_nodes, activation, maximize, clip_max, learning_rate, max_attempts, max_iters, init_state) ==
  LET node_list == <<Len(X[1])>> \o hidden_nodes \o <<Len(y[1])>>
      f    == NetworkWeightsInit(X, y, node_list, activation, FALSE, FALSE,
                                 learning_rate)
      prob == ContinuousOpt(NumWeights(node_list), maximize, -1 * clip_max,
                            clip_max, learning_rate)
  IN  /\ pc = "idle"
      /\ ~self.exists
      /\ Len(X) = Len(y)
      /\ init_state = None \/ Len(init_state) = prob.length
      /\ \E start \in IF init_state = None
                      THEN Vectors(prob.length, prob.min_val..prob.max_val)
                      ELSE {init_state} :
           GradientDescentEnter(prob, f, max_attempts, max_iters, start, "client")
      /\ raised' = "none"
      /\ call' = [NoCall EXCEPT !.op = "gradient_descent"]
      /\ UNCHANGED <<self, codec>>

\* ------------------------------------------------------ NeuralNetwork.fit
\* y = np.array(y), reshaped to one column when it has one dimension.
LabelShape(y) == IF Len(y.shape) = 1 THEN <<Len(y.data), 1>> ELSE y.shape

\* The label array as a matrix.
LabelMatrix(y) == Reshape(y.data, LabelShape(y)[1], LabelShape(y)[2])

\* not np.shape(X)[0] == np.shape(y)[0]
RowsDiffer(X, y) == ~(Len(X) = LabelShape(y)[1])

\* [input_nodes] + self.hidden_nodes + [output_nodes]
FitNodeList(X, y) ==
  <<Len(X[1]) + (IF self.bias THEN 1 ELSE 0)>> \o self.hidden_nodes
    \o <<LabelShape(y)[2]>>

\* The optimizer called on the problem fit has built: gradient_descent is
\* entered; the three randomized algorithms are outside this file and
\* return some vector with its loss.
FitDispatch(X, y, init_weights) ==
  LET node_list == FitNodeList(X, y)
      num_nodes == NumWeights(node_list)
      fitness   == NetworkWeightsInit(X, LabelMatrix(y), node_list,
                                      self.activation, self.bias,
                                      self.is_classifier, self.lr)
      prob      == ContinuousOpt(num_nodes, FALSE, -1 * self.clip_max,
                                 self.clip_max, self.lr)
  IN  IF self.algorithm # "genetic_alg" /\ init_weights # None
         /\ Len(init_weights) # num_nodes
      THEN /\ raised' = "state_length"
           /\ UNCHANGED <<self, problem, fn, gd, pc, caller, visited, grad_read>>
      ELSE IF self.algorithm = "gradient_descent"
      THEN /\ \E start \in IF init_weights = None
                           THEN Vectors(num_nodes, InitValues)
                           ELSE {init_weights} :
                GradientDescentEnter(prob, fitness, self.max_attempts,
                                     self.max_iters, start, "fit")
           /\ raised' = "none"
           /\ UNCHANGED self
      ELSE /\ \E fitted_weights \in Vectors(num_nodes, ReturnedValues) :
                self' = [self EXCEPT
                           !.node_list = node_list,
                           !.fitted_weights = fitted_weights,
                           !.loss = Times(prob.maximize,
                                          eval_fitness(prob, fitness,
                                                       fitted_weights).fitness),
                           !.output_activation = fitness.output_activation]
           /\ raised' = "none"
           /\ UNCHANGED <<problem, fn, gd, pc, caller, visited, grad_read>>

\* fit with the row check made only after the node list is saved.
FitSaveFirst(X, y, init_weights) ==
  /\ pc = "idle"
  /\ self.exists
  /\ call' = [NoCall EXCEPT !.op = "fit",
                            !.rows_differ = (Len(X) # y.shape[1])]
  /\ IF RowsDiffer(X, y)
     THEN /\ raised' = "length"
          /\ self' = [self EXCEPT !.node_list = FitNodeList(X, y)]
          /\ UNCHANGED <<problem, fn, gd, pc, caller, visited, grad_read>>
     ELSE /\ self.node_list = <<>>
          /\ self.activation \in IntegerActivations
          /\ FitDispatch(X, y, init_weights)
  /\ UNCHANGED codec

\* fit(X, y, init_weights).  An object is followed through one fit that
\* returns (fit overwrites every attribute it saves, so a second one passes
\* through the same values), and through any number that raise.
Fit(X, y, init_weights) ==
  /\ pc = "idle"
  /\ self.exists
  /\ call' = [NoCall EXCEPT !.op = "fit",
                            !.rows_differ = (Len(X) # y.shape[1])]
  /\ IF RowsDiffer(X, y)
     THEN /\ raised' = "length"
          /\ UNCHANGED <<self, problem, fn, gd, pc, caller, visited, grad_read>>
     ELSE /\ self.node_list = <<>>
          /\ self.activation \in IntegerActivations
          /\ FitDispatch(X, y, init_weights)
  /\ UNCHANGED codec

\* ------------------------------------------------------- specifications
\* init_weights / init_state: absent, or a vector of some length.
InitWeightsArgs == {None, <<1>>, <<-1, 1>>, <<1, 1, -1>>}

Next ==
  \/ \E hidden_nodes \in HiddenNodesArgs, activation \in ActivationArgs,
        algorithm \in AlgorithmArgs, max_iters \in MaxItersArgs,
        bias \in BOOLEAN, learning_rate \in LearningRateArgs,
        early_stopping \in BOOLEAN, clip_max \in ClipMaxArgs,
        max_attempts \in MaxAttemptsArgs :
       Construct(hidden_nodes, activation, algorithm, max_iters, bias, FALSE,
                 learning_rate, early_stopping, clip_max, max_attempts)
  \/ \E X \in FeatureArgs, y \in LabelArgs, init_weights \in InitWeightsArgs :
       Fit(X, y, init_weights)
  \/ \E X \in FeatureArgs, y \in LabelArgs, hidden_nodes \in HiddenNodesArgs,
        activation \in IntegerActivations, maximize \in BOOLEAN,
        clip_max \in ClipMaxArgs, learning_rate \in LearningRateArgs,
        max_attempts \in MaxAttemptsArgs, max_iters \in MaxItersArgs,
        init_state \in InitWeightsArgs :
       GradientDescentCall(X, LabelMatrix(y), hidden_nodes, activation,
                           maximize, clip_max, learning_rate, max_attempts,
                           max_iters, init_state)
  \/ GDStep
  \/ GDReturn

Spec == Init /\ [][Next]_vars

\* ------------------------------------------- the codec's own round trips
\* Layer widths, weight values, topologies, flat vectors and matrix lists
\* the codec is tried on.
NodeCounts == {1, 2}
CodecValues == {0, 1}
NodeLists == UNION {[1..n -> NodeCounts] : n \in 0..MaxLayers}
FlatVectors == UNION {[1..n -> CodecValues] : n \in 0..MaxFlat}

RECURSIVE MatrixLists(_, _)
\* Every list of matrices of the shapes (node_list[k], node_list[k+1]),
\* k >= i.
MatrixLists(node_list, i) ==
  IF i > Len(node_list) - 1 THEN {<<>>}
  ELSE {<<m>> \o rest :
          m \in [1..node_list[i] -> [1..node_list[i + 1] -> CodecValues]],
          rest \in MatrixLists(node_list, i + 1)}

CodecInit ==
  /\ self = NoSelf
  /\ problem = NoProblem
  /\ fn = NoFn
  /\ gd = NoRun
  /\ pc = "idle"
  /\ caller = ""
  /\ raised = "none"
  /\ call = NoCall
  /\ visited = <<>>
  /\ grad_read = NoRead
  /\ \E node_list \in NodeLists :
       \/ \E flat \in FlatVectors :
            codec = [NoCodec EXCEPT !.form = "flat", !.orig = "flat",
                                    !.node_list = node_list,
                                    !.flat = flat, !.orig_flat = flat]
       \/ \E weights \in MatrixLists(node_list, 1) :
            codec = [NoCodec EXCEPT !.form = "weights", !.orig = "weights",
                                    !.node_list = node_list,
                                    !.weights = weights,
                                    !.orig_weights = weights]

\* unflatten_weights(flat, node_list) is called.
CodecUnflatten ==
  /\ codec.form = "flat"
  /\ codec.steps < 2
  /\ LET r == unflatten_weights(codec.flat, codec.node_list)
     IN  codec' = IF r.raised
                  THEN [codec EXCEPT !.form = "raised", !.raised = TRUE]
                  ELSE [codec EXCEPT !.form = "weights", !.weights = r.weights,
                                     !.steps = codec.steps + 1]
  /\ UNCHANGED <<self, problem, fn, gd, pc, caller, raised, call, visited,
                 grad_read>>

\* flatten_weights(weights) is called.
CodecFlatten ==
  /\ codec.form = "weights"
  /\ codec.steps < 2
  /\ codec' = [codec EXCEPT !.form = "flat",
                            !.flat = flatten_weights(codec.weights),
                            !.steps = codec.steps + 1]
  /\ UNCHANGED <<self, problem, fn, gd, pc, caller, raised, call, visited,
                 grad_read>>

CodecNext == CodecUnflatten \/ CodecFlatten

CodecSpec == CodecInit /\ [][CodecNext]_vars

\* ------------------------------------------------------------------ claims
\* C1: a flat vector of the topology's length is reproduced exactly by
\* unflatten_weights then flatten_weights (and unflatten_weights does not
\* raise on it); a list of matrices of the topology's shapes is reproduced
\* exactly by flatten_weights then unflatten_weights.
C1_RoundTrip ==
  /\ (codec.orig = "flat"
        /\ Len(codec.orig_flat) = NumWeights(codec.node_list))
       => /\ ~codec.raised
          /\ codec.steps >= 1 => Len(codec.weights) + 1 >= Len(codec.node_list)
          /\ codec.steps = 2 => codec.flat = codec.orig_flat
  /\ codec.orig = "weights"
       => /\ ~codec.raised
          /\ codec.steps >= 1 => Len(codec.flat) = NumWeights(codec.node_list)
          /\ codec.steps = 2 => codec.weights = codec.orig_weights

C1_Witness ==
  /\ codec.steps = 2
  /\ codec.orig = "weights"
  /\ codec.node_list = <<1, 2, 2>>
  /\ codec.weights = <<<<<<1, 0>>>>, <<<<0, 1>>, <<0, 0>>>>>>


\* The states that have been current in the run in progress.
Visited == {visited[i] : i \in 1..Len(visited)}

\* The raw (unsigned) fitness of a state: the loss the fitness function
\* computes for it.
RawFitness(state) == evaluate(fn, state).fitness

\* The sign-adjusted fitness of a state: maximize times the raw fitness.
SignedFitness(state) == Times(problem.maximize, RawFitness(state))

\* gradient_descent is at its return statement.
AtReturn ==
  pc = "gd" /\ ~LoopCondition(gd.attempts, gd.iters, gd.max_attempts, gd.max_iters)

\* C2: from one pass of the loop to the next, maximize * best_fitness (the
\* best fitness in sign-adjusted terms) never decreases.
C2_BestMonotonic ==
  [][(pc = "gd" /\ pc' = "gd")
       => ~Gt(Times(problem.maximize, gd.best_fitness),
              Times(problem'.maximize, gd'.best_fitness))]_vars

C2_Witness ==
  /\ pc = "gd"
  /\ problem.maximize = -1
  /\ gd.iters >= 2
  /\ gd.attempts >= 1
  /\ gd.best_state # visited[1]
  /\ gd.best_state # problem.state

\* C3: with max_attempts = 1 and a first candidate that does not improve on
\* the initial state, the loop has made exactly one pass (iters = 1,
\* attempts = 1) and is at its return, whatever max_iters >= 1 is.
C3_HaltsAfterOne ==
  (/\ pc = "gd"
   /\ gd.max_attempts = 1
   /\ Len(visited) >= 2
   /\ ~Gt(SignedFitness(visited[2]), SignedFitness(visited[1])))
    => /\ gd.iters = 1
       /\ gd.attempts = 1
       /\ Len(visited) = 2
       /\ AtReturn

C3_Witness ==
  /\ pc = "gd"
  /\ gd.max_attempts = 1
  /\ gd.max_iters = inf
  /\ gd.iters = 1
  /\ gd.attempts = 1
  /\ visited[2] # visited[1]
  /\ ~Gt(SignedFitness(visited[2]), SignedFitness(visited[1]))

\* C4: a pass of the loop is made only while attempts < max_attempts and
\* iters < max_iters, and adds one to iters; attempts <= max_attempts and
\* iters <= max_iters always hold; gradient_descent returns only with
\* attempts = max_attempts or iters = max_iters; and a run with a finite
\* max_iters is at its return unless another pass is due, so it returns
\* after at most max_iters passes.
C4_LoopBounds ==
  /\ [](pc = "gd"
          => /\ gd.attempts <= gd.max_attempts
             /\ gd.iters <= gd.max_iters
             /\ gd.iters = Len(visited) - 1
             /\ AtReturn => (gd.attempts = gd.max_attempts
                               \/ gd.iters = gd.max_iters)
             /\ (gd.max_iters # inf /\ ~AtReturn)
                  => (/\ gd.attempts < gd.max_attempts
                      /\ gd.iters < gd.max_iters
                      /\ gd.iters <= MaxIters))
  /\ [][(pc = "gd" /\ pc' = "gd")
          => (/\ gd'.iters = gd.iters + 1
              /\ gd'.max_iters = gd.max_iters
              /\ gd'.max_attempts = gd.max_attempts
              /\ gd.attempts < gd.max_attempts
              /\ gd.iters < gd.max_iters)]_vars
  /\ [][(pc = "gd" /\ pc' = "idle")
          => (gd.attempts = gd.max_attempts \/ gd.iters = gd.max_iters)]_vars

C4_Witness ==
  /\ AtReturn
  /\ gd.max_iters = 2
  /\ gd.iters = 2
  /\ gd.max_attempts = 2
  /\ gd.attempts = 1

\* C5: a fit call whose feature and label arrays have different numbers of
\* rows raises the length error and changes nothing: the object's
\* attributes are as before and no optimizer is entered.
C5_MismatchRaises ==
  [][(pc = "idle" /\ call'.op = "fit" /\ call'.rows_differ)
       => /\ raised' = "length"
          /\ self' = self
          /\ pc' = "idle"
          /\ <<problem, fn, gd, visited>>' = <<problem, fn, gd, visited>>]_vars

C5_Witness ==
  /\ call.op = "fit"
  /\ call.rows_differ
  /\ raised = "length"
  /\ self.node_list = <<2, 1, 1>>
  /\ self.fitted_weights # <<>>
  /\ self.algorithm = "gradient_descent"

\* C6: a construction with an activation or an algorithm name outside the
\* four of each raises and yields no object; every object that exists has
\* a recognized activation and a recognized algorithm.
C6_ConstructionValidates ==
  /\ self.exists
       => /\ self.activation \in {"identity", "relu", "sigmoid", "tanh"}
          /\ self.algorithm \in {"random_hill_climb", "simulated_annealing",
                                 "genetic_alg", "gradient_descent"}
  /\ (/\ call.op = "__init__"
      /\ \/ call.activation \notin {"identity", "relu", "sigmoid", "tanh"}
         \/ call.algorithm \notin {"random_hill_climb", "simulated_annealing",
                                   "genetic_alg", "gradient_descent"})
       => /\ raised \in {"activation", "algorithm"}
          /\ ~self.exists

C6_Witness ==
  /\ call.op = "__init__"
  /\ call.activation = "relu"
  /\ call.algorithm = "adam"
  /\ raised = "algorithm"
  /\ ~self.exists

\* Whether a state of raw fitness cand improves on one of raw fitness cur:
\* higher when maximizing, strictly lower (a lower loss) when minimizing.
Improves(maximize, cand, cur) ==
  IF maximize = 1 THEN Gt(cand, cur) ELSE Gt(cur, cand)

\* C7: in every pass of the loop, attempts becomes 0 exactly when the
\* candidate's raw fitness improves on the current state's (for a
\* minimization, when its loss is strictly lower), and attempts + 1 otherwise.
C7_AttemptsCounter ==
  [][(pc = "gd" /\ pc' = "gd")
       => gd'.attempts =
            IF Improves(problem.maximize, RawFitness(visited'[Len(visited')]),
                        RawFitness(problem.state))
            THEN 0 ELSE gd.attempts + 1]_vars

C7_Witness ==
  /\ pc = "gd"
  /\ caller = "fit"
  /\ problem.maximize = -1
  /\ gd.iters = 2
  /\ gd.attempts = 1
  /\ Gt(RawFitness(visited[1]), RawFitness(visited[2]))
  /\ RawFitness(visited[3]) = RawFitness(visited[2])

\* C8 as claimed: best_fitness is maximize times the raw fitness of
\* best_state, best_state has been current, and no state that has been
\* current has a sign-adjusted fitness above best_fitness.
C8_AsClaimed ==
  pc = "gd"
    => /\ gd.best_fitness = SignedFitness(gd.best_state)
       /\ gd.best_state \in Visited
       /\ \A s \in Visited : ~Gt(SignedFitness(s), gd.best_fitness)

\* C8: at the head of every pass and at the return, best_fitness is the raw
\* fitness of best_state (maximize times its sign-adjusted fitness),
\* best_state has been current, and no state that has been current has a
\* sign-adjusted fitness above maximize * best_fitness.
C8_BestIsRawFitness ==
  pc = "gd"
    => /\ gd.best_fitness = RawFitness(gd.best_state)
       /\ gd.best_fitness = Times(problem.maximize, SignedFitness(gd.best_state))
       /\ gd.best_state \in Visited
       /\ \A s \in Visited :
            ~Gt(SignedFitness(s), Times(problem.maximize, gd.best_fitness))

C8_Witness ==
  /\ AtReturn
  /\ caller = "fit"
  /\ gd.iters >= 2
  /\ gd.best_state # visited[1]
  /\ gd.best_state # problem.state
  /\ gd.best_fitness[1] > 0

\* C9: the cache every calculate_updates call reads (inputs_list, weights,
\* y_pred) is the one a forward evaluation of the state that is current at
\* the call writes.
C9_CacheFresh ==
  (pc = "gd" /\ grad_read.n >= 1)
    => LET e == evaluate(fn, grad_read.state).fn
       IN  /\ grad_read.inputs_list # <<>>
           /\ grad_read.inputs_list = e.inputs_list
           /\ grad_read.weights = e.weights
           /\ grad_read.y_pred = e.y_pred
           /\ grad_read.state = visited[grad_read.n]

C9_Witness ==
  /\ pc = "gd"
  /\ grad_read.n >= 2
  /\ gd.attempts >= 1
  /\ Len(grad_read.inputs_list) = 2
  /\ grad_read.state # visited[1]
  /\ problem.state # grad_read.state

\* C10: an object built with early_stopping = False has max_attempts =
\* max_iters, and a gradient-descent fit on it with a finite max_iters >= 1
\* makes exactly max_iters passes: attempts stays below max_attempts while
\* iters is below max_iters.
C10_NoEarlyStop ==
  /\ (self.exists /\ ~self.early_stopping)
       => self.max_attempts = self.max_iters
  /\ (/\ pc = "gd"
      /\ caller = "fit"
      /\ ~self.early_stopping
      /\ self.max_iters # inf
      /\ self.max_iters >= 1)
       => /\ gd.max_iters = self.max_iters
          /\ gd.iters < self.max_iters => gd.attempts < gd.max_attempts
          /\ AtReturn => gd.iters = self.max_iters

C10_Witness ==
  /\ AtReturn
  /\ caller = "fit"
  /\ ~self.early_stopping
  /\ self.max_iters = 2
  /\ gd.iters = 2
  /\ gd.attempts = 1

=============================================================================
